---------------------------- MODULE Spec2Model ----------------------------
(***************************************************************************)
(* A model of scripts/check_notion.py: the page watcher that fetches a     *)
(* page's text, compares it with the persisted snapshot, renders a unified *)
(* diff and a bounded change report, and persists the new state.           *)
(*                                                                         *)
(* A Python str is a sequence of code points; each code point is a         *)
(* one-character TLA+ string, except the two non-ASCII code points of the  *)
(* report, written "U+2022" (the bullet) and "U+2192" (the arrow).  A list *)
(* of lines is a sequence of such strings.  Python indices are 0-based and *)
(* ranges half-open; opcodes and matching blocks keep Python's indices, so *)
(* a[i1:i2] is Slice(a, i1, i2).                                           *)
(***************************************************************************)
EXTENDS Integers, Sequences, FiniteSets, TLC

(***************************************************************************)
(* Bounds of the model.                                                    *)
(***************************************************************************)
\* longest line list of the exhaustively enumerated old/new texts
MaxLines == 2
\* largest value of the MAX_CHANGE_ITEMS and MAX_BLOCK_LINES environment settings
MaxBudget == 2
\* longest block handed to clip_block on its own
MaxBlockLen == 3
\* largest max_lines handed to clip_block on its own
MaxClip == 2

(***************************************************************************)
(* Python str and list primitives.                                         *)
(***************************************************************************)
Slice(s, lo, hi) == SubSeq(s, lo + 1, hi)

Min(a, b) == IF a < b THEN a ELSE b

Max(a, b) == IF a > b THEN a ELSE b

\* str.strip() with no argument removes whitespace; these are the whitespace
\* code points of the model's alphabet.
Whitespace == {" ", "\t", "\n", "\r"}

UpperCase == <<"A", "B", "C", "D", "E", "F", "G", "H", "I", "J", "K", "L", "M",
               "N", "O", "P", "Q", "R", "S", "T", "U", "V", "W", "X", "Y", "Z">>

LowerCase == <<"a", "b", "c", "d", "e", "f", "g", "h", "i", "j", "k", "l", "m",
               "n", "o", "p", "q", "r", "s", "t", "u", "v", "w", "x", "y", "z">>

lower_char(c) ==
    IF \E i \in 1..26 : UpperCase[i] = c
    THEN LowerCase[CHOOSE i \in 1..26 : UpperCase[i] = c]
    ELSE c

lower(s) == [i \in 1..Len(s) |-> lower_char(s[i])]

RECURSIVE lstrip(_)
lstrip(s) ==
    IF s # <<>> /\ s[1] \in Whitespace THEN lstrip(Tail(s)) ELSE s

RECURSIVE rstrip(_)
rstrip(s) ==
    IF s # <<>> /\ s[Len(s)] \in Whitespace
    THEN rstrip(SubSeq(s, 1, Len(s) - 1))
    ELSE s

strip(s) == rstrip(lstrip(s))

RECURSIVE rstrip_newline(_)
rstrip_newline(s) ==
    IF s # <<>> /\ s[Len(s)] = "\n"
    THEN rstrip_newline(SubSeq(s, 1, Len(s) - 1))
    ELSE s

startswith(s, p) == Len(s) >= Len(p) /\ SubSeq(s, 1, Len(p)) = p

\* p in s, for a non-empty p
contains(s, p) ==
    \E i \in 1..(Len(s) - Len(p) + 1) : SubSeq(s, i, i + Len(p) - 1) = p

RECURSIVE join(_, _)
join(sep, parts) ==
    IF parts = <<>> THEN <<>>
    ELSE IF Len(parts) = 1 THEN parts[1]
    ELSE parts[1] \o sep \o join(sep, Tail(parts))

\* s.replace(c, r) for a one-character c
RECURSIVE replace_char(_, _, _)
replace_char(s, c, r) ==
    IF s = <<>> THEN <<>>
    ELSE (IF s[1] = c THEN r ELSE <<s[1]>>) \o replace_char(Tail(s), c, r)

Digits == <<"0", "1", "2", "3", "4", "5", "6", "7", "8", "9">>

\* '{}'.format(n) for n >= 0
RECURSIVE format_int(_)
format_int(n) ==
    IF n < 10 THEN <<Digits[n + 1]>>
    ELSE format_int(n \div 10) \o <<Digits[(n % 10) + 1]>>

\* str.splitlines(): "\n", "\r" and "\r\n" end a line, and no empty last
\* line is produced.
FirstBreak(s) ==
    IF \E k \in 1..Len(s) : s[k] \in {"\n", "\r"}
    THEN CHOOSE k \in 1..Len(s) :
            /\ s[k] \in {"\n", "\r"}
            /\ \A m \in 1..(k - 1) : s[m] \notin {"\n", "\r"}
    ELSE 0

RECURSIVE splitlines(_)
splitlines(s) ==
    IF s = <<>> THEN <<>>
    ELSE LET k == FirstBreak(s) IN
         IF k = 0 THEN <<s>>
         ELSE LET w == IF s[k] = "\r" /\ k < Len(s) /\ s[k + 1] = "\n"
                       THEN 2 ELSE 1
              IN <<SubSeq(s, 1, k - 1)>> \o splitlines(SubSeq(s, k + w, Len(s)))

(***************************************************************************)
(* normalize_text                                                          *)
(***************************************************************************)
\* text.replace("\r\n", "\n")
RECURSIVE replace_crlf(_)
replace_crlf(s) ==
    IF s = <<>> THEN <<>>
    ELSE IF Len(s) >= 2 /\ s[1] = "\r" /\ s[2] = "\n"
         THEN <<"\n">> \o replace_crlf(SubSeq(s, 3, Len(s)))
         ELSE <<s[1]>> \o replace_crlf(Tail(s))

RECURSIVE drop_run(_, _)
drop_run(s, set) ==
    IF s # <<>> /\ s[1] \in set THEN drop_run(Tail(s), set) ELSE s

\* re.sub of a maximal run of characters of `set` by the one character rep:
\* r"[ \t]+" -> " ", and r"\n{2,}" -> "\n" (a run of one "\n" is replaced
\* by itself).
RECURSIVE squeeze(_, _, _)
squeeze(s, set, rep) ==
    IF s = <<>> THEN <<>>
    ELSE IF s[1] \in set
         THEN <<rep>> \o squeeze(drop_run(s, set), set, rep)
         ELSE <<s[1]>> \o squeeze(Tail(s), set, rep)

normalize_text(text) ==
    strip(squeeze(squeeze(replace_crlf(text), {" ", "\t"}, " "), {"\n"}, "\n"))

(***************************************************************************)
(* difflib.SequenceMatcher(None, a, b) and difflib.unified_diff, the       *)
(* standard-library aligner the script calls.  No element is junk          *)
(* (isjunk is None); the autojunk heuristic only applies to sequences of   *)
(* 200 or more elements and is outside the model's bounds.  A matching     *)
(* block is <<i, j, size>>, an opcode <<tag, i1, i2, j1, j2>>.             *)
(***************************************************************************)
RECURSIVE run_length(_, _, _, _, _, _)
run_length(a, b, i, j, ahi, bhi) ==
    IF i < ahi /\ j < bhi /\ a[i + 1] = b[j + 1]
    THEN 1 + run_length(a, b, i + 1, j + 1, ahi, bhi)
    ELSE 0

\* the length of the common run starting at each pair of positions of the
\* windows a[alo:ahi] and b[blo:bhi]
run_lengths(a, b, alo, ahi, blo, bhi) ==
    [p \in (alo..(ahi - 1)) \X (blo..(bhi - 1)) |->
        run_length(a, b, p[1], p[2], ahi, bhi)]

\* a variant that keeps, of all the longest blocks, the one starting latest
\* in a
best_block_latest(size, alo, blo) ==
    LET starts == DOMAIN size
        bestsize == CHOOSE k \in {size[p] : p \in starts} :
                       \A p \in starts : size[p] <= k
        longest == {p \in starts : size[p] = bestsize}
        besti == CHOOSE i \in {p[1] : p \in longest} :
                    \A p \in longest : i >= p[1]
        bestj == CHOOSE j \in {p[2] : p \in longest} :
                    /\ <<besti, j>> \in longest
                    /\ \A p \in longest : p[1] = besti => j <= p[2]
    IN IF starts = {} THEN <<alo, blo, 0>>
       ELSE IF bestsize = 0 THEN <<alo, blo, 0>>
       ELSE <<besti, bestj, bestsize>>

\* the block find_longest_match keeps: the longest; of all the longest the
\* one starting earliest in a, and of those the one starting earliest in b
\* (its scan replaces the best block only by a strictly longer one);
\* <<alo, blo, 0>> when no element matches
best_block(size, alo, blo) ==
    LET starts == DOMAIN size
        bestsize == CHOOSE k \in {size[p] : p \in starts} :
                       \A p \in starts : size[p] <= k
        longest == {p \in starts : size[p] = bestsize}
        besti == CHOOSE i \in {p[1] : p \in longest} :
                    \A p \in longest : i <= p[1]
        bestj == CHOOSE j \in {p[2] : p \in longest} :
                    /\ <<besti, j>> \in longest
                    /\ \A p \in longest : p[1] = besti => j <= p[2]
    IN IF starts = {} THEN <<alo, blo, 0>>
       ELSE IF bestsize = 0 THEN <<alo, blo, 0>>
       ELSE <<besti, bestj, bestsize>>

find_longest_match(a, b, alo, ahi, blo, bhi) ==
    best_block(run_lengths(a, b, alo, ahi, blo, bhi), alo, blo)

\* the matching blocks found by get_matching_blocks' work queue, before
\* they are sorted: the longest match x of a window, then those of the
\* windows to its left and to its right
RECURSIVE found_blocks(_, _, _, _, _, _)
RECURSIVE found_around(_, _, _, _, _, _, _)
found_around(x, a, b, alo, ahi, blo, bhi) ==
    IF x[3] = 0 THEN {}
    ELSE {x}
         \cup (IF alo < x[1] /\ blo < x[2]
               THEN found_blocks(a, b, alo, x[1], blo, x[2]) ELSE {})
         \cup (IF x[1] + x[3] < ahi /\ x[2] + x[3] < bhi
               THEN found_blocks(a, b, x[1] + x[3], ahi, x[2] + x[3], bhi)
               ELSE {})

found_blocks(a, b, alo, ahi, blo, bhi) ==
    found_around(find_longest_match(a, b, alo, ahi, blo, bhi),
                 a, b, alo, ahi, blo, bhi)

tuple_less(x, y) ==
    \/ x[1] < y[1]
    \/ x[1] = y[1] /\ x[2] < y[2]
    \/ x[1] = y[1] /\ x[2] = y[2] /\ x[3] < y[3]

\* list.sort() of a set of distinct triples
RECURSIVE sorted(_)
sorted(set) ==
    IF set = {} THEN <<>>
    ELSE LET m == CHOOSE x \in set : \A y \in set : y = x \/ tuple_less(x, y)
         IN <<m>> \o sorted(set \ {m})

\* the loop of get_matching_blocks that merges adjacent blocks; <<i1, j1, k1>>
\* is the block being grown
RECURSIVE collapse(_, _, _, _)
collapse(blocks, i1, j1, k1) ==
    IF blocks = <<>>
    THEN (IF k1 > 0 THEN << <<i1, j1, k1>> >> ELSE <<>>)
    ELSE LET i2 == blocks[1][1]
             j2 == blocks[1][2]
             k2 == blocks[1][3]
         IN IF i1 + k1 = i2 /\ j1 + k1 = j2
            THEN collapse(Tail(blocks), i1, j1, k1 + k2)
            ELSE (IF k1 > 0 THEN << <<i1, j1, k1>> >> ELSE <<>>)
                 \o collapse(Tail(blocks), i2, j2, k2)

get_matching_blocks(a, b) ==
    collapse(sorted(found_blocks(a, b, 0, Len(a), 0, Len(b))), 0, 0, 0)
    \o << <<Len(a), Len(b), 0>> >>

RECURSIVE opcodes_from(_, _, _)
opcodes_from(blocks, i, j) ==
    IF blocks = <<>> THEN <<>>
    ELSE LET ai == blocks[1][1]
             bj == blocks[1][2]
             size == blocks[1][3]
             tag == IF i < ai /\ j < bj THEN "replace"
                    ELSE IF i < ai THEN "delete"
                    ELSE IF j < bj THEN "insert"
                    ELSE ""
         IN (IF tag # "" THEN << <<tag, i, ai, j, bj>> >> ELSE <<>>)
            \o (IF size > 0
                THEN << <<"equal", ai, ai + size, bj, bj + size>> >>
                ELSE <<>>)
            \o opcodes_from(Tail(blocks), ai + size, bj + size)

get_opcodes(a, b) == opcodes_from(get_matching_blocks(a, b), 0, 0)

\* unified_diff's default number of context lines (its parameter n), which
\* make_unified_diff does not override
ContextLines == 3

RECURSIVE group_loop(_, _, _)
group_loop(codes, group, n) ==
    IF codes = <<>>
    THEN (IF group # <<>> /\ ~(Len(group) = 1 /\ group[1][1] = "equal")
          THEN <<group>> ELSE <<>>)
    ELSE LET c == codes[1] IN
         IF c[1] = "equal" /\ c[3] - c[2] > n + n
         THEN <<Append(group, <<c[1], c[2], Min(c[3], c[2] + n),
                                 c[4], Min(c[5], c[4] + n)>>)>>
              \o group_loop(Tail(codes),
                            << <<c[1], Max(c[2], c[3] - n), c[3],
                                 Max(c[4], c[5] - n), c[5]>> >>, n)
         ELSE group_loop(Tail(codes), Append(group, c), n)

\* a variant that keeps a leading equal opcode whole
trim_first_kept(codes, n) == codes

\* get_grouped_opcodes' fix-ups of a leading and of a trailing equal opcode
trim_first(codes, n) ==
    IF codes[1][1] = "equal"
    THEN [codes EXCEPT ![1] =
            <<codes[1][1], Max(codes[1][2], codes[1][3] - n), codes[1][3],
              Max(codes[1][4], codes[1][5] - n), codes[1][5]>>]
    ELSE codes

trim_last(codes, n) ==
    IF codes[Len(codes)][1] = "equal"
    THEN [codes EXCEPT ![Len(codes)] =
            <<codes[Len(codes)][1],
              codes[Len(codes)][2],
              Min(codes[Len(codes)][3], codes[Len(codes)][2] + n),
              codes[Len(codes)][4],
              Min(codes[Len(codes)][5], codes[Len(codes)][4] + n)>>]
    ELSE codes

or_one_equal(codes) ==
    IF codes = <<>> THEN << <<"equal", 0, 1, 0, 1>> >> ELSE codes

get_grouped_opcodes(a, b, n) ==
    group_loop(trim_last(trim_first(or_one_equal(get_opcodes(a, b)), n), n),
               <<>>, n)

_format_range_unified(start, stop) ==
    LET length == stop - start IN
    IF length = 1 THEN format_int(start + 1)
    ELSE format_int(IF length = 0 THEN start ELSE start + 1)
         \o <<",">> \o format_int(length)

prefixed(c, lines) == [k \in 1..Len(lines) |-> <<c>> \o lines[k]]

RECURSIVE hunk_body(_, _, _)
hunk_body(group, a, b) ==
    IF group = <<>> THEN <<>>
    ELSE LET c == group[1] IN
         (IF c[1] = "equal"
          THEN prefixed(" ", Slice(a, c[2], c[3]))
          ELSE (IF c[1] \in {"replace", "delete"}
                THEN prefixed("-", Slice(a, c[2], c[3])) ELSE <<>>)
               \o (IF c[1] \in {"replace", "insert"}
                   THEN prefixed("+", Slice(b, c[4], c[5])) ELSE <<>>))
         \o hunk_body(Tail(group), a, b)

hunk_header(group) ==
    <<"@", "@", " ", "-">>
    \o _format_range_unified(group[1][2], group[Len(group)][3])
    \o <<" ", "+">>
    \o _format_range_unified(group[1][4], group[Len(group)][5])
    \o <<" ", "@", "@">>

RECURSIVE hunks(_, _, _)
hunks(groups, a, b) ==
    IF groups = <<>> THEN <<>>
    ELSE <<hunk_header(groups[1])>> \o hunk_body(groups[1], a, b)
         \o hunks(Tail(groups), a, b)

FromFileLine == <<"-", "-", "-", " ", "b", "e", "f", "o", "r", "e">>

ToFileLine == <<"+", "+", "+", " ", "a", "f", "t", "e", "r">>

\* difflib.unified_diff(a, b, fromfile="before", tofile="after", lineterm="")
unified_diff(a, b) ==
    LET groups == get_grouped_opcodes(a, b, ContextLines) IN
    IF groups = <<>> THEN <<>>
    ELSE <<FromFileLine, ToFileLine>> \o hunks(groups, a, b)

make_unified_diff(old_text, new_text) ==
    unified_diff(splitlines(old_text), splitlines(new_text))

(***************************************************************************)
(* diff_summary                                                            *)
(***************************************************************************)
\* the lines diff_summary skips as headers and hunk-range markers
is_header_line(line) ==
    \/ startswith(line, <<"+", "+", "+", " ">>)
    \/ startswith(line, <<"-", "-", "-", " ">>)
    \/ startswith(line, <<"@", "@">>)

diff_summary(diff_lines) ==
    LET body == {k \in 1..Len(diff_lines) : ~is_header_line(diff_lines[k])}
        added == Cardinality({k \in body : startswith(diff_lines[k], <<"+">>)})
        removed == Cardinality({k \in body :
                                  /\ ~startswith(diff_lines[k], <<"+">>)
                                  /\ startswith(diff_lines[k], <<"-">>)})
    IN <<added, removed>>

(***************************************************************************)
(* prev_nonempty_line                                                      *)
(***************************************************************************)
\* the default of prev_nonempty_line's lookback parameter
Lookback == 25

Boilerplate == <<"n", "o", "t", "i", "o", "n">>

\* a variant that walks back to the first line, without lookback limit
scan_range_unbounded(lines, idx) == <<Min(idx - 1, Len(lines) - 1), 0 - 1>>

\* range(k, max(-1, k - lookback), -1) as <<k, stop>>: the loop reads the
\* indices k, k - 1, ..., stop + 1
scan_range(lines, idx) ==
    LET k == Min(idx - 1, Len(lines) - 1) IN <<k, Max(-1, k - Lookback)>>

RECURSIVE scan_back(_, _, _)
scan_back(lines, i, stop) ==
    IF i <= stop THEN <<>>
    ELSE LET s == strip(lines[i + 1]) IN
         IF s # <<>> /\ lower(s) # Boilerplate THEN s
         ELSE scan_back(lines, i - 1, stop)

prev_nonempty_line(lines, idx) ==
    scan_back(lines, scan_range(lines, idx)[1], scan_range(lines, idx)[2])

(***************************************************************************)
(* clip_block                                                              *)
(***************************************************************************)
EmptyPlaceholder == <<"(", "e", "m", "p", "t", "y", ")">>

BlockTruncated == <<".", ".", ".", "[", "t", "r", "u", "n", "c", "a", "t", "e", "d", "]">>

\* [x.strip() for x in block if x.strip()]
RECURSIVE stripped_nonblank(_)
stripped_nonblank(block) ==
    IF block = <<>> THEN <<>>
    ELSE (IF strip(block[1]) # <<>> THEN <<strip(block[1])>> ELSE <<>>)
         \o stripped_nonblank(Tail(block))

\* b[:m]
py_prefix(b, m) ==
    IF m >= 0 THEN SubSeq(b, 1, Min(m, Len(b)))
    ELSE SubSeq(b, 1, Max(0, Len(b) + m))

\* a variant that compares with < where clip_block compares with <=
clip_lines_strict(b, max_lines) ==
    IF b = <<>> THEN EmptyPlaceholder
    ELSE IF Len(b) < max_lines THEN join(<<"\n">>, b)
    ELSE join(<<"\n">>, py_prefix(b, max_lines)) \o <<"\n">> \o BlockTruncated

\* clip_block once b, the stripped non-blank lines, is built
clip_lines(b, max_lines) ==
    IF b = <<>> THEN EmptyPlaceholder
    ELSE IF Len(b) <= max_lines THEN join(<<"\n">>, b)
    ELSE join(<<"\n">>, py_prefix(b, max_lines)) \o <<"\n">> \o BlockTruncated

clip_block(block, max_lines) == clip_lines(stripped_nonblank(block), max_lines)

(***************************************************************************)
(* build_change_report                                                     *)
(***************************************************************************)
NoChangesReport ==
    <<"N", "o", " ", "v", "i", "s", "i", "b", "l", "e", " ", "t", "e", "x", "t",
      " ", "c", "h", "a", "n", "g", "e", "s", " ", "d", "e", "t", "e", "c", "t",
      "e", "d", ".">>

NoChangesBrief == <<"N", "o", " ", "c", "h", "a", "n", "g", "e", "s">>

ReportHeader == <<"W", "h", "a", "t", " ", "c", "h", "a", "n", "g", "e", "d", ":", "\n">>

TruncationItem ==
    <<"U+2022", " ", ".", ".", ".", "(", "m", "o", "r", "e", " ", "c", "h", "a",
      "n", "g", "e", "s", " ", "t", "r", "u", "n", "c", "a", "t", "e", "d", ")">>

\* the cap of the brief, items[0].replace("\n", " ")[:180]
BriefCap == 180

\* x or y, for two strings
py_or(x, y) == IF x # <<>> THEN x ELSE y

\* prev_nonempty_line(new_lines, j1) or prev_nonempty_line(old_lines, i1)
context_of(op, old_lines, new_lines) ==
    py_or(prev_nonempty_line(new_lines, op[4]),
          prev_nonempty_line(old_lines, op[2]))

\* a one-line replacement's item
clean_item(context, o, n) ==
    IF context # <<>>
    THEN <<"U+2022", " ">> \o context \o <<":", " ">> \o o
         \o <<" ", "U+2192", " ">> \o n
    ELSE <<"U+2022", " ">> \o o \o <<" ", "U+2192", " ">> \o n

\* clip_block(block, MAX_BLOCK_LINES).replace(chr(10), chr(10)+'  ')
indented_block(block, max_lines) ==
    replace_char(clip_block(block, max_lines), "\n", <<"\n", " ", " ">>)

block_header(context) ==
    IF context # <<>>
    THEN <<"U+2022", " ", "N", "e", "a", "r", ":", " ">> \o context
    ELSE <<"U+2022", " ", "C", "h", "a", "n", "g", "e">>

\* an insert's, a delete's or a multi-line replace's item
block_item(tag, context, old_block, new_block, max_lines) ==
    IF tag = "insert"
    THEN block_header(context)
         \o <<"\n", " ", " ", "A", "d", "d", "e", "d", ":", "\n", " ", " ">>
         \o indented_block(new_block, max_lines)
    ELSE IF tag = "delete"
    THEN block_header(context)
         \o <<"\n", " ", " ", "R", "e", "m", "o", "v", "e", "d", ":", "\n", " ", " ">>
         \o indented_block(old_block, max_lines)
    ELSE block_header(context)
         \o <<"\n", " ", " ", "B", "e", "f", "o", "r", "e", ":", "\n", " ", " ">>
         \o indented_block(old_block, max_lines)
         \o <<"\n", " ", " ", "A", "f", "t", "e", "r", ":", "\n", " ", " ">>
         \o indented_block(new_block, max_lines)

\* a variant that reports a one-line replace whatever its lines are
one_line_items_always(context, o, n) == <<clean_item(context, o, n)>>

\* the item of a replace of one line by one line: none when the two lines
\* are equal once stripped
one_line_items(context, o, n) ==
    IF o # n THEN <<clean_item(context, o, n)>> ELSE <<>>

\* the loop of build_change_report over the opcodes still to visit, `items`
\* being the list built so far
RECURSIVE report_loop(_, _, _, _, _, _)
RECURSIVE after_block_item(_, _, _, _, _, _)
after_block_item(rest, items, old_lines, new_lines, max_items, max_lines) ==
    IF Len(items) >= max_items
    THEN Append(items, TruncationItem)
    ELSE report_loop(rest, items, old_lines, new_lines, max_items, max_lines)

report_loop(opcodes, items, old_lines, new_lines, max_items, max_lines) ==
    IF opcodes = <<>> THEN items
    ELSE IF opcodes[1][1] = "equal"
    THEN report_loop(Tail(opcodes), items, old_lines, new_lines,
                     max_items, max_lines)
    ELSE IF /\ opcodes[1][1] = "replace"
            /\ opcodes[1][3] - opcodes[1][2] = 1
            /\ opcodes[1][5] - opcodes[1][4] = 1
    THEN report_loop(Tail(opcodes),
                     items \o one_line_items(
                                 context_of(opcodes[1], old_lines, new_lines),
                                 strip(old_lines[opcodes[1][2] + 1]),
                                 strip(new_lines[opcodes[1][4] + 1])),
                     old_lines, new_lines, max_items, max_lines)
    ELSE after_block_item(
             Tail(opcodes),
             Append(items,
                    block_item(opcodes[1][1],
                               context_of(opcodes[1], old_lines, new_lines),
                               Slice(old_lines, opcodes[1][2], opcodes[1][3]),
                               Slice(new_lines, opcodes[1][4], opcodes[1][5]),
                               max_lines)),
             old_lines, new_lines, max_items, max_lines)

\* what build_change_report returns for the list `items`, with its locals
compose_report(opcodes, items) ==
    [opcodes |-> opcodes,
     items |-> items,
     report |-> IF items = <<>> THEN NoChangesReport
                ELSE ReportHeader \o join(<<"\n", "\n">>, items),
     brief |-> IF items = <<>> THEN NoChangesBrief
               ELSE py_prefix(replace_char(items[1], "\n", <<" ">>), BriefCap)]

report_from(old_lines, new_lines, opcodes, max_items, max_lines) ==
    compose_report(opcodes,
                   report_loop(opcodes, <<>>, old_lines, new_lines,
                               max_items, max_lines))

lines_report(old_lines, new_lines, max_items, max_lines) ==
    report_from(old_lines, new_lines, get_opcodes(old_lines, new_lines),
                max_items, max_lines)

\* build_change_report: its result (report, brief) and its locals opcodes
\* and items
build_change_report(old_text, new_text, max_items, max_lines) ==
    lines_report(splitlines(old_text), splitlines(new_text), max_items, max_lines)

(***************************************************************************)
(* sha256_hex, read_file, write_file, the login-wall test                  *)
(***************************************************************************)
\* SHA-256 is modelled as collision-free: the digest of s is an injective
\* encoding of s that, like a hex digest, is never empty and holds no
\* whitespace.
digest_char(c) ==
    IF c = " " THEN "%20"
    ELSE IF c = "\t" THEN "%09"
    ELSE IF c = "\n" THEN "%0a"
    ELSE IF c = "\r" THEN "%0d"
    ELSE c

sha256_hex(s) == <<"#">> \o [k \in 1..Len(s) |-> digest_char(s[k])]

\* a file of the state directory: absent until it is first written
NoFile == [exists |-> FALSE, content |-> <<>>]

read_file(file) == IF file.exists THEN file.content ELSE <<>>

write_file(content) == [exists |-> TRUE, content |-> content]

login_signals ==
    {<<"L", "o", "g", " ", "i", "n">>,
     <<"C", "o", "n", "t", "i", "n", "u", "e", " ", "w", "i", "t", "h">>,
     <<"S", "i", "g", "n", " ", "u", "p">>,
     <<"C", "r", "e", "a", "t", "e", " ", "a", "c", "c", "o", "u", "n", "t">>}

\* a variant that compares without folding the letter case
login_wall_case_sensitive(text) == \E sig \in login_signals : contains(text, sig)

\* any(sig.lower() in text.lower() for sig in login_signals)
login_wall(text) == \E sig \in login_signals : contains(lower(text), lower(sig))

\* first_run = (old_hash == "") or (old_snapshot.strip() == "")
first_run_of(hash, text) == hash = <<>> \/ strip(text) = <<>>

\* a variant that forgets the first run: changed = (old_hash != new_hash)
changed_of_any_run(first, hash, fresh_hash) == hash # fresh_hash

\* changed = (not first_run) and (old_hash != new_hash)
changed_of(first, hash, fresh_hash) == ~first /\ hash # fresh_hash

bool_text(b) ==
    IF b THEN <<"t", "r", "u", "e">> ELSE <<"f", "a", "l", "s", "e">>

(***************************************************************************)
(* The inputs the model draws.                                             *)
(***************************************************************************)
Text(lines) == join(<<"\n">>, lines)

Repeat(line, n) == [k \in 1..n |-> line]

\* document.body.innerText as the browser may return it
RawPages ==
    {<<>>,
     <<"a">>,
     <<" ", "a", "\r", "\n", "\r", "\n", "b", " ", "\n">>,
     <<"a", "\n", " ", "b">>,
     <<"a", " ", "\t", " ", "b">>,
     <<"L", "o", "g", " ", "i", "n">>,
     <<"a", "\n", "s", "i", "g", "n", " ", "U", "P">>,
     <<"b", "\n", "C", "r", "e", "a", "t", "e", " ", " ", "A", "c", "c", "o", "u", "n", "t">>}

\* the values of MAX_CHANGE_ITEMS and of MAX_BLOCK_LINES the environment sets
Budgets == 1..MaxBudget

\* the lines of the exhaustively enumerated texts: a content line, the same
\* line with leading whitespace, a boilerplate line and an empty line
CoreAlphabet == {<<"a">>, <<" ", "a">>, <<"N", "o", "t", "i", "o", "n">>, <<>>}

CoreTexts ==
    {Text(ls) : ls \in UNION {[1..n -> CoreAlphabet] : n \in 0..MaxLines}}

\* longer old/new texts: several changed regions, lines that begin like a
\* diff header, a run of equal lines longer than twice the diff context,
\* boilerplate runs as long as the lookback window, a change of whitespace
\* beside other changes, and changes whose old and new anchors differ
ExtraPairs ==
    {<<Text(<< <<"a">>, <<"x">>, <<"a">> >>),
       Text(<< <<"b">>, <<"x">>, <<"b">> >>)>>,
     <<Text(<< <<"a">>, <<"x">>, <<"b">>, <<"c">> >>),
       Text(<< <<"d">>, <<"x">> >>)>>,
     <<Text(<< <<"-", "-", " ", "a">>, <<"k">> >>),
       Text(<< <<"k">> >>)>>,
     <<Text(<< <<"k">> >>),
       Text(<< <<"k">>, <<"+", "+", " ", "b">> >>)>>,
     <<Text(<< <<"a">> >> \o Repeat(<<"x">>, 2 * ContextLines + 1) \o << <<"b">> >>),
       Text(<< <<"c">> >> \o Repeat(<<"x">>, 2 * ContextLines + 1) \o << <<"d">> >>)>>,
     <<Text(<< <<"x">> >> \o Repeat(<<"N", "o", "t", "i", "o", "n">>, Lookback)
            \o << <<"a">> >>),
       Text(<< <<"x">> >> \o Repeat(<<"N", "o", "t", "i", "o", "n">>, Lookback)
            \o << <<"b">> >>)>>,
     <<Text(<< <<"x">> >> \o Repeat(<<"N", "o", "t", "i", "o", "n">>, Lookback - 1)
            \o << <<"a">> >>),
       Text(<< <<"x">> >> \o Repeat(<<"N", "o", "t", "i", "o", "n">>, Lookback - 1)
            \o << <<"b">> >>)>>,
     <<Text(<< <<"N", "o", "T", "i", "o", "n", " ">>, <<" ">>, <<"a">> >>),
       Text(<< <<"N", "o", "T", "i", "o", "n", " ">>, <<" ">>, <<"b">>, <<"c">> >>)>>,
     <<Text(<< <<"a">>, <<"x">>, <<"c">>, <<"d">>, <<"y">>, <<"b">> >>),
       Text(<< <<" ", "a">>, <<"x">>, <<"y">>, <<"e">> >>)>>,
     <<Text(<< <<"p">>, <<"N", "o", "t", "i", "o", "n">>, <<"a">> >>),
       Text(<< <<"q">>, <<"N", "o", "t", "i", "o", "n">>, <<"b">> >>)>>}

CorePairs == (CoreTexts \X CoreTexts) \cup ExtraPairs

\* the lines of the blocks handed to clip_block on its own
BlockAlphabet == {<<"a">>, <<" ", "b", " ">>, <<"c">>, <<" ">>, <<>>}

Blocks == UNION {[1..n -> BlockAlphabet] : n \in 0..MaxBlockLen}

(***************************************************************************)
(* State.                                                                  *)
(***************************************************************************)
VARIABLES
    hash_file,         \* STATE_HASH_FILE
    snapshot_file,     \* STATE_SNAPSHOT_FILE
    diff_file,         \* DIFF_FILE
    changes_file,      \* CHANGES_FILE
    MAX_CHANGE_ITEMS,  \* the environment's setting, read at import
    MAX_BLOCK_LINES,   \* the environment's setting, read at import
    GITHUB_OUTPUT,     \* whether the environment names an output file
    pc,                \* where the running process is
    old_hash, old_snapshot, snapshot, new_hash, first_run, changed,
    diff_lines, added, removed, change_report, change_brief,  \* main's locals
    opcodes, items,    \* build_change_report's locals
    outputs,           \* what this process appended to the output file
    last_completed,    \* history: the snapshot of the last run that completed, and
                       \* the attachment files it wrote
    block, max_lines, clipped  \* clip_block's arguments and result

files == <<hash_file, snapshot_file, diff_file, changes_file>>

env == <<MAX_CHANGE_ITEMS, MAX_BLOCK_LINES, GITHUB_OUTPUT>>

main_locals == <<old_hash, old_snapshot, snapshot, new_hash, first_run, changed>>

core_locals == <<diff_lines, added, removed, change_report, change_brief, opcodes, items>>

clip_vars == <<block, max_lines, clipped>>

vars == <<files, env, pc, main_locals, core_locals, outputs, last_completed, clip_vars>>

NoRun == [any |-> FALSE, text |-> <<>>, diff |-> NoFile, changes |-> NoFile]

FreshCore ==
    /\ diff_lines = <<>> /\ added = 0 /\ removed = 0
    /\ change_report = <<>> /\ change_brief = <<>>
    /\ opcodes = <<>> /\ items = <<>>
    /\ outputs = <<>>

FreshProcess ==
    /\ old_hash = <<>> /\ old_snapshot = <<>> /\ snapshot = <<>> /\ new_hash = <<>>
    /\ first_run = FALSE /\ changed = FALSE
    /\ FreshCore

NoClip == block = <<>> /\ max_lines = 0 /\ clipped = <<>>

(***************************************************************************)
(* The scheduled runs of main().                                           *)
(***************************************************************************)
Init ==
    /\ hash_file = NoFile /\ snapshot_file = NoFile
    /\ diff_file = NoFile /\ changes_file = NoFile
    /\ MAX_CHANGE_ITEMS \in Budgets /\ MAX_BLOCK_LINES \in Budgets
    /\ GITHUB_OUTPUT \in BOOLEAN
    /\ pc = "start"
    /\ FreshProcess
    /\ last_completed = NoRun
    /\ NoClip

\* main reads the persisted hash and snapshot
ReadState ==
    /\ pc = "start"
    /\ old_hash' = strip(read_file(hash_file))
    /\ old_snapshot' = read_file(snapshot_file)
    /\ pc' = "fetch"
    /\ UNCHANGED <<files, env, snapshot, new_hash, first_run, changed,
                   core_locals, outputs, last_completed, clip_vars>>

\* extract_text_with_playwright returns the normalized text of the page
ExtractText ==
    /\ pc = "fetch"
    /\ \E raw \in RawPages :
          /\ ~login_wall(normalize_text(raw))
          /\ snapshot' = normalize_text(raw)
    /\ pc' = "compute"
    /\ UNCHANGED <<files, env, old_hash, old_snapshot, new_hash, first_run,
                   changed, core_locals, outputs, last_completed, clip_vars>>

\* extract_text_with_playwright raises SystemExit: the process ends
LoginWallExit ==
    /\ pc = "fetch"
    /\ \E raw \in RawPages : login_wall(normalize_text(raw))
    /\ pc' = "exited"
    /\ UNCHANGED <<files, env, main_locals, core_locals, outputs,
                   last_completed, clip_vars>>

\* main computes the hash, the flags, the diff, its statistics and the report
Compute ==
    /\ pc = "compute"
    /\ new_hash' = sha256_hex(snapshot)
    /\ first_run' = first_run_of(old_hash, old_snapshot)
    /\ changed' = changed_of(first_run', old_hash, new_hash')
    /\ diff_lines' = make_unified_diff(old_snapshot, snapshot)
    /\ \E stats \in {diff_summary(diff_lines')} :
          added' = stats[1] /\ removed' = stats[2]
    /\ \E r \in {build_change_report(old_snapshot, snapshot,
                                     MAX_CHANGE_ITEMS, MAX_BLOCK_LINES)} :
          /\ opcodes' = r.opcodes
          /\ items' = r.items
          /\ change_report' = r.report
          /\ change_brief' = r.brief
    /\ pc' = "write"
    /\ UNCHANGED <<files, env, old_hash, old_snapshot, snapshot, outputs,
                   last_completed, clip_vars>>

\* main writes the state files and the attachment files
WriteState ==
    /\ pc = "write"
    /\ hash_file' = write_file(new_hash \o <<"\n">>)
    /\ snapshot_file' = write_file(snapshot \o <<"\n">>)
    /\ diff_file' = write_file(join(<<"\n">>, diff_lines)
                               \o (IF diff_lines # <<>> THEN <<"\n">> ELSE <<>>))
    /\ changes_file' = write_file(change_report \o <<"\n">>)
    /\ pc' = "output"
    /\ UNCHANGED <<env, main_locals, core_locals, outputs, last_completed, clip_vars>>

\* main's set_output calls; set_output and set_output_multiline return at
\* once when GITHUB_OUTPUT is not set.  An output is <<key, value>>; the
\* multi-line one carries value.rstrip("\n").
SetOutputs ==
    /\ pc = "output"
    /\ outputs' =
          IF GITHUB_OUTPUT
          THEN << <<"old_hash", old_hash>>,
                  <<"new_hash", new_hash>>,
                  <<"first_run", bool_text(first_run)>>,
                  <<"changed", bool_text(changed)>>,
                  <<"diff_summary", <<"+">> \o format_int(added) \o <<" ", "/", " ", "-">>
                                    \o format_int(removed)>>,
                  <<"change_brief", change_brief>>,
                  <<"change_report", rstrip_newline(change_report)>> >>
          ELSE <<>>
    /\ last_completed' = [any |-> TRUE, text |-> snapshot,
                           diff |-> diff_file, changes |-> changes_file]
    /\ pc' = "done"
    /\ UNCHANGED <<files, env, main_locals, core_locals, clip_vars>>

\* the schedule starts the script again, in a new process
NextRun ==
    /\ pc \in {"done", "exited"}
    /\ pc' = "start"
    /\ old_hash' = <<>> /\ old_snapshot' = <<>> /\ snapshot' = <<>>
    /\ new_hash' = <<>> /\ first_run' = FALSE /\ changed' = FALSE
    /\ diff_lines' = <<>> /\ added' = 0 /\ removed' = 0
    /\ change_report' = <<>> /\ change_brief' = <<>>
    /\ opcodes' = <<>> /\ items' = <<>>
    /\ outputs' = <<>>
    /\ UNCHANGED <<files, env, last_completed, clip_vars>>

Next ==
    \/ ReadState
    \/ ExtractText
    \/ LoginWallExit
    \/ Compute
    \/ WriteState
    \/ SetOutputs
    \/ NextRun

Spec == Init /\ [][Next]_vars

(***************************************************************************)
(* The diff and report functions applied to arbitrary old and new texts.   *)
(***************************************************************************)
InitCore ==
    /\ hash_file = NoFile /\ snapshot_file = NoFile
    /\ diff_file = NoFile /\ changes_file = NoFile
    /\ MAX_CHANGE_ITEMS \in Budgets /\ MAX_BLOCK_LINES \in Budgets
    /\ GITHUB_OUTPUT = FALSE
    /\ pc = "core"
    /\ \E p \in CorePairs : old_snapshot = p[1] /\ snapshot = p[2]
    /\ old_hash = <<>> /\ new_hash = <<>> /\ first_run = FALSE /\ changed = FALSE
    /\ FreshCore
    /\ last_completed = NoRun
    /\ NoClip

CallMakeUnifiedDiff ==
    /\ pc = "core"
    /\ diff_lines' = make_unified_diff(old_snapshot, snapshot)
    /\ pc' = "diffed"
    /\ UNCHANGED <<files, env, main_locals, added, removed, change_report,
                   change_brief, opcodes, items, outputs, last_completed, clip_vars>>

CallDiffSummary ==
    /\ pc = "diffed"
    /\ \E stats \in {diff_summary(diff_lines)} :
          added' = stats[1] /\ removed' = stats[2]
    /\ pc' = "summarized"
    /\ UNCHANGED <<files, env, main_locals, diff_lines, change_report,
                   change_brief, opcodes, items, outputs, last_completed, clip_vars>>

CallBuildChangeReport ==
    /\ pc = "summarized"
    /\ \E r \in {build_change_report(old_snapshot, snapshot,
                                     MAX_CHANGE_ITEMS, MAX_BLOCK_LINES)} :
          /\ opcodes' = r.opcodes
          /\ items' = r.items
          /\ change_report' = r.report
          /\ change_brief' = r.brief
    /\ pc' = "reported"
    /\ UNCHANGED <<files, env, main_locals, diff_lines, added, removed,
                   outputs, last_completed, clip_vars>>

NextCore ==
    \/ CallMakeUnifiedDiff
    \/ CallDiffSummary
    \/ CallBuildChangeReport

SpecCore == InitCore /\ [][NextCore]_vars

(***************************************************************************)
(* clip_block applied to arbitrary blocks.                                 *)
(***************************************************************************)
InitClip ==
    /\ hash_file = NoFile /\ snapshot_file = NoFile
    /\ diff_file = NoFile /\ changes_file = NoFile
    /\ MAX_CHANGE_ITEMS = 1 /\ MAX_BLOCK_LINES = 1
    /\ GITHUB_OUTPUT = FALSE
    /\ pc = "clip"
    /\ FreshProcess
    /\ last_completed = NoRun
    /\ block \in Blocks
    /\ max_lines \in 0..MaxClip
    /\ clipped = <<>>

CallClipBlock ==
    /\ pc = "clip"
    /\ clipped' = clip_block(block, max_lines)
    /\ pc' = "clipped"
    /\ UNCHANGED <<files, env, main_locals, core_locals, outputs,
                   last_completed, block, max_lines>>

NextClip == CallClipBlock

SpecClip == InitClip /\ [][NextClip]_vars

(***************************************************************************)
(* Properties.                                                             *)
(***************************************************************************)
OldLines == splitlines(old_snapshot)

NewLines == splitlines(snapshot)

IsChange(op) == op[1] # "equal"

\* the non-equal opcodes, in order
Changes == SelectSeq(opcodes, IsChange)

RECURSIVE SumOf(_, _, _)
SumOf(ops, tags, side) ==
    IF ops = <<>> THEN 0
    ELSE (IF ops[1][1] \in tags
          THEN (IF side = "old" THEN ops[1][3] - ops[1][2]
                ELSE ops[1][5] - ops[1][4])
          ELSE 0)
         + SumOf(Tail(ops), tags, side)

\* the old (new) slices of the non-equal opcodes, concatenated
RECURSIVE ChangedLines(_, _, _)
ChangedLines(ops, lines, side) ==
    IF ops = <<>> THEN <<>>
    ELSE (IF side = "old" THEN Slice(lines, ops[1][2], ops[1][3])
          ELSE Slice(lines, ops[1][4], ops[1][5]))
         \o ChangedLines(Tail(ops), lines, side)

Ran == pc \in {"write", "output", "done"}

(* C1, as stated: the reported `changed` flag is true exactly when the     *)
(* trimmed old snapshot differs from the trimmed new text, also when the   *)
(* old snapshot is empty.                                                  *)
C1_ChangedIffTextsDiffer ==
    Ran => (changed = (strip(old_snapshot) # strip(snapshot)))

(* C1, amended: `changed` is true exactly when the trimmed old snapshot is *)
(* not empty and differs from the trimmed new text; on a first run (no     *)
(* snapshot, or an empty one) it is false whatever the new text is.        *)
C1_ChangedUnlessFirstRun ==
    Ran => (changed = (/\ strip(old_snapshot) # <<>>
                       /\ strip(old_snapshot) # strip(snapshot)))

C1_Witness ==
    /\ pc = "write"
    /\ strip(old_snapshot) # <<>>
    /\ snapshot # <<>>
    /\ changed

(* C2: a run that fetches the text the previous completed run persisted    *)
(* reports changed = false, +0 / -0, the no-changes sentence and the brief *)
(* "No changes".                                                           *)
C2_SameTextNoChange ==
    (Ran /\ last_completed.any /\ pc # "done" /\ last_completed.text = snapshot)
    => /\ changed = FALSE
       /\ added = 0
       /\ removed = 0
       /\ change_report = NoChangesReport
       /\ change_brief = NoChangesBrief

(* C3: diff_summary's added is the number of new lines in Insert and       *)
(* Replace opcodes and its removed the number of old lines in Delete and   *)
(* Replace opcodes, whatever the lines hold.                               *)
C3_StatsCountChangedLines ==
    pc = "reported"
    => /\ added = SumOf(opcodes, {"insert", "replace"}, "new")
       /\ removed = SumOf(opcodes, {"delete", "replace"}, "old")

(* C4: when there are more non-equal opcodes than MAX_CHANGE_ITEMS, the    *)
(* report holds exactly MAX_CHANGE_ITEMS items followed by one truncation  *)
(* marker.                                                                 *)
C4_TruncationLaw ==
    (pc = "reported" /\ Len(Changes) > MAX_CHANGE_ITEMS)
    => /\ Len(items) = MAX_CHANGE_ITEMS + 1
       /\ items[Len(items)] = TruncationItem
       /\ \A k \in 1..(Len(items) - 1) : items[k] # TruncationItem

\* str.split("\n")
RECURSIVE SplitNewline(_)
SplitNewline(s) ==
    IF \E k \in 1..Len(s) : s[k] = "\n"
    THEN LET k == CHOOSE k \in 1..Len(s) :
                     s[k] = "\n" /\ \A m \in 1..(k - 1) : s[m] # "\n"
         IN <<SubSeq(s, 1, k - 1)>> \o SplitNewline(SubSeq(s, k + 1, Len(s)))
    ELSE <<s>>

IsNonBlank(line) == strip(line) # <<>>

\* the non-blank lines of the block handed to clip_block, trimmed
NonBlank == [k \in 1..Len(SelectSeq(block, IsNonBlank)) |->
                strip(SelectSeq(block, IsNonBlank)[k])]

ClipLaw ==
    IF NonBlank = <<>> THEN clipped = <<"(", "e", "m", "p", "t", "y", ")">>
    ELSE IF Len(NonBlank) <= max_lines THEN SplitNewline(clipped) = NonBlank
    ELSE SplitNewline(clipped)
         = SubSeq(NonBlank, 1, max_lines)
           \o << <<".", ".", ".", "[", "t", "r", "u", "n", "c", "a", "t", "e", "d", "]">> >>

(* C5, as stated: for every max_lines >= 0 the block is the first          *)
(* max_lines trimmed non-blank lines, then the marker line exactly when    *)
(* there were more, and "(empty)" when there is none.                      *)
C5_ClipLawFromZero == pc = "clipped" => ClipLaw

(* C5, amended: the law holds for every max_lines >= 1; for max_lines = 0  *)
(* and a block with a non-blank line the result is an empty line followed  *)
(* by the marker line.                                                     *)
C5_ClipLawFromOne ==
    pc = "clipped"
    => /\ max_lines >= 1 => ClipLaw
       /\ (max_lines = 0 /\ NonBlank = <<>>) => ClipLaw
       /\ (max_lines = 0 /\ NonBlank # <<>>)
          => SplitNewline(clipped)
             = <<<<>>, <<".", ".", ".", "[", "t", "r", "u", "n", "c", "a", "t", "e", "d", "]">>>>

C5_Witness ==
    /\ pc = "clipped"
    /\ max_lines >= 1
    /\ Len(NonBlank) > max_lines
    /\ Len(SelectSeq(block, IsNonBlank)) < Len(block)

IsMinus(line) == line[1] = "-"

IsPlus(line) == line[1] = "+"

IsContext(line) == line[1] = " "

DiffBody == SubSeq(diff_lines, 3, Len(diff_lines))

Contents(ls) == [k \in 1..Len(ls) |-> Tail(ls[k])]

\* the '-' lines are the old slices and the '+' lines the new slices of the
\* non-equal opcodes
ChangedLinesRendered ==
    /\ Contents(SelectSeq(DiffBody, IsMinus)) = ChangedLines(Changes, OldLines, "old")
    /\ Contents(SelectSeq(DiffBody, IsPlus)) = ChangedLines(Changes, NewLines, "new")

(* C6, as stated: after the header pair every line that is not a           *)
(* hunk-range marker is a '-' or a '+' line of a non-equal opcode; no line *)
(* of an Equal opcode appears.                                             *)
C6_ContextFree ==
    (pc = "reported" /\ diff_lines # <<>>)
    => /\ \A k \in 1..Len(DiffBody) :
             ~startswith(DiffBody[k], <<"@", "@">>)
             => (IsMinus(DiffBody[k]) \/ IsPlus(DiffBody[k]))
       /\ ChangedLinesRendered

\* the line at 0-based index m of the old lines lies in an Equal opcode,
\* among its first n lines when a change precedes it or among its last n
\* lines when a change follows it
NearChange(m, n) ==
    \E k \in 1..Len(opcodes) :
        /\ opcodes[k][1] = "equal"
        /\ opcodes[k][2] <= m /\ m < opcodes[k][3]
        /\ \/ k > 1 /\ m < opcodes[k][2] + n
           \/ k < Len(opcodes) /\ m >= opcodes[k][3] - n

(* C6, amended: the diff is empty when no opcode is non-equal; otherwise   *)
(* it starts with the header pair, and every later line is a hunk-range    *)
(* marker, a '-' line of an old slice or a '+' line of a new slice of a    *)
(* non-equal opcode (all of them, in order), or a ' ' line: a line of an   *)
(* Equal opcode at most 3 lines from a change.                             *)
C6_DiffBody ==
    pc = "reported"
    => /\ (Changes = <<>>) <=> (diff_lines = <<>>)
       /\ diff_lines # <<>>
          => /\ diff_lines[1] = <<"-", "-", "-", " ", "b", "e", "f", "o", "r", "e">>
             /\ diff_lines[2] = <<"+", "+", "+", " ", "a", "f", "t", "e", "r">>
             /\ \A k \in 1..Len(DiffBody) :
                   \/ startswith(DiffBody[k], <<"@", "@", " ", "-">>)
                   \/ IsMinus(DiffBody[k])
                   \/ IsPlus(DiffBody[k])
                   \/ /\ IsContext(DiffBody[k])
                      /\ \E m \in 0..(Len(OldLines) - 1) :
                            OldLines[m + 1] = Tail(DiffBody[k]) /\ NearChange(m, 3)
             /\ ChangedLinesRendered

C6_Witness ==
    /\ pc = "reported"
    /\ \E k \in 1..Len(DiffBody) : IsContext(DiffBody[k])
    /\ \E k \in 1..Len(DiffBody) : IsMinus(DiffBody[k])
    /\ \E k \in 1..Len(DiffBody) : IsPlus(DiffBody[k])

OneLine(op) ==
    /\ op[1] = "replace"
    /\ op[3] - op[2] = 1
    /\ op[5] - op[4] = 1

\* a Replace of one line by one line whose lines are equal once trimmed
WhitespaceOnly(op) ==
    /\ OneLine(op)
    /\ strip(OldLines[op[2] + 1]) = strip(NewLines[op[4] + 1])

IsVisible(op) == IsChange(op) /\ ~WhitespaceOnly(op)

\* resolve(lines, idx) of the report's context anchor: the trimmed content of
\* the nearest line before idx, among the 25 lines before it, that is
\* neither blank nor the token "notion"
Resolve(lines, idx) ==
    LET k == Min(idx - 1, Len(lines) - 1)
        good == {m \in 0..k :
                    /\ m > k - 25
                    /\ strip(lines[m + 1]) # <<>>
                    /\ lower(strip(lines[m + 1])) # <<"n", "o", "t", "i", "o", "n">>}
    IN IF good = {} THEN <<>>
       ELSE strip(lines[(CHOOSE m \in good : \A q \in good : q <= m) + 1])

Anchor(op) ==
    IF Resolve(NewLines, op[4]) # <<>> THEN Resolve(NewLines, op[4])
    ELSE Resolve(OldLines, op[2])

Bullet == <<"U+2022", " ">>

Arrow == <<" ", "U+2192", " ">>

Section(label, ls) ==
    <<"\n", " ", " ">> \o label \o <<":", "\n", " ", " ">>
    \o replace_char(clip_block(ls, MAX_BLOCK_LINES), "\n", <<"\n", " ", " ">>)

\* the item the report is to hold for a non-equal opcode
ExpectedItem(op) ==
    IF OneLine(op) /\ ~WhitespaceOnly(op)
    THEN Bullet
         \o (IF Anchor(op) # <<>> THEN Anchor(op) \o <<":", " ">> ELSE <<>>)
         \o strip(OldLines[op[2] + 1]) \o Arrow \o strip(NewLines[op[4] + 1])
    ELSE Bullet
         \o (IF Anchor(op) # <<>> THEN <<"N", "e", "a", "r", ":", " ">> \o Anchor(op)
             ELSE <<"C", "h", "a", "n", "g", "e">>)
         \o (CASE op[1] = "insert" ->
                    Section(<<"A", "d", "d", "e", "d">>, Slice(NewLines, op[4], op[5]))
               [] op[1] = "delete" ->
                    Section(<<"R", "e", "m", "o", "v", "e", "d">>, Slice(OldLines, op[2], op[3]))
               [] OTHER ->
                    Section(<<"B", "e", "f", "o", "r", "e">>, Slice(OldLines, op[2], op[3]))
                    \o Section(<<"A", "f", "t", "e", "r">>, Slice(NewLines, op[4], op[5])))

Marked == items # <<>> /\ items[Len(items)] = TruncationItem

\* the items before the truncation marker
Substantive == IF Marked THEN SubSeq(items, 1, Len(items) - 1) ELSE items

\* the report holds, in order, the items of the opcodes `ops`: all of them
\* when it was not cut, the first ones when it was
Reports(ops) ==
    /\ Len(Substantive) <= Len(ops)
    /\ \A k \in 1..Len(Substantive) : Substantive[k] = ExpectedItem(ops[k])
    /\ ~Marked => Len(Substantive) = Len(ops)
    /\ Marked => Len(Substantive) >= MAX_CHANGE_ITEMS
    /\ change_report
       = IF items = <<>> THEN NoChangesReport
         ELSE ReportHeader \o join(<<"\n", "\n">>, items)

(* C7, as stated: while the budget is not exhausted the report holds one   *)
(* item for each non-equal opcode, in order, a clean one-line item for a   *)
(* one-line Replace whose trimmed lines differ and a block item otherwise; *)
(* the report is the no-changes sentence only when no opcode is non-equal. *)
C7_ItemPerChange ==
    pc = "reported"
    => /\ Reports(Changes)
       /\ change_report = NoChangesReport => Changes = <<>>

(* C7, amended: the report holds one item for each non-equal opcode except *)
(* the one-line Replaces whose trimmed lines are equal, which produce no   *)
(* item; the report is the no-changes sentence exactly when every          *)
(* non-equal opcode is such a whitespace-only Replace.                     *)
C7_ItemPerVisibleChange ==
    pc = "reported"
    => /\ Reports(SelectSeq(opcodes, IsVisible))
       /\ change_report = NoChangesReport <=> SelectSeq(opcodes, IsVisible) = <<>>

C7_Witness ==
    /\ pc = "reported"
    /\ \E k \in 1..Len(opcodes) : IsChange(opcodes[k]) /\ WhitespaceOnly(opcodes[k])
    /\ \E k \in 1..Len(opcodes) : OneLine(opcodes[k]) /\ ~WhitespaceOnly(opcodes[k])
    /\ \E k \in 1..Len(opcodes) : IsChange(opcodes[k]) /\ ~OneLine(opcodes[k])
    /\ ~Marked

ResolveRange(lines) == (0 - 1)..(Len(lines) + 1)

(* C8: prev_nonempty_line is resolve: from min(idx - 1, len - 1) it reads  *)
(* at most 25 lines, none below index 0, and returns the first one that is *)
(* neither blank nor "notion" in any letter case, or "" when there is      *)
(* none; every item is anchored on resolve(new_lines, j1) or else on       *)
(* resolve(old_lines, i1), and a block item without anchor is headed       *)
(* "Change".                                                               *)
C8_ContextAnchor ==
    pc = "reported"
    => /\ \A lines \in {OldLines, NewLines} : \A idx \in ResolveRange(lines) :
             /\ prev_nonempty_line(lines, idx) = Resolve(lines, idx)
             /\ idx <= 0 => prev_nonempty_line(lines, idx) = <<>>
             /\ scan_range(lines, idx)[1] <= Len(lines) - 1
             /\ scan_range(lines, idx)[2] >= 0 - 1
             /\ scan_range(lines, idx)[1] - scan_range(lines, idx)[2] <= 25
       /\ \A k \in 1..Len(Substantive) :
             LET op == SelectSeq(opcodes, IsVisible)[k]
             IN IF OneLine(op)
                THEN startswith(Substantive[k],
                                IF Anchor(op) = <<>>
                                THEN Bullet \o strip(OldLines[op[2] + 1]) \o Arrow
                                ELSE Bullet \o Anchor(op) \o <<":", " ">>)
                ELSE startswith(Substantive[k],
                                IF Anchor(op) = <<>>
                                THEN Bullet \o <<"C", "h", "a", "n", "g", "e", "\n">>
                                ELSE Bullet \o <<"N", "e", "a", "r", ":", " ">>
                                     \o Anchor(op) \o <<"\n">>)

\* an item anchored on the old lines, the new ones giving no anchor although
\* the change is not at their start
C8_Witness ==
    /\ pc = "reported"
    /\ \E k \in 1..Len(Substantive) :
          LET op == SelectSeq(opcodes, IsVisible)[k]
          IN /\ op[4] > 0
             /\ Resolve(NewLines, op[4]) = <<>>
             /\ Resolve(OldLines, op[2]) # <<>>

\* the length of the longest run of lines common to the old and new lines
CommonAt(i, j, k) ==
    /\ i + k <= Len(OldLines)
    /\ j + k <= Len(NewLines)
    /\ Slice(OldLines, i, i + k) = Slice(NewLines, j, j + k)

Longest ==
    LET ks == {k \in 1..Min(Len(OldLines), Len(NewLines)) :
                  \E i \in 0..(Len(OldLines) - 1), j \in 0..(Len(NewLines) - 1) :
                      CommonAt(i, j, k)}
    IN IF ks = {} THEN 0 ELSE CHOOSE k \in ks : \A q \in ks : q <= k

\* where the common runs of length n start
StartsOf(n) ==
    {p \in (0..(Len(OldLines) - 1)) \X (0..(Len(NewLines) - 1)) :
        CommonAt(p[1], p[2], n)}

\* the earliest of the starts `at`: earliest in old, then earliest in new
Earliest(at) ==
    CHOOSE p \in at : \A q \in at : p[1] < q[1] \/ (p[1] = q[1] /\ p[2] <= q[2])

\* an Equal opcode aligns the run of n lines that starts at p
Aligned(p, n) ==
    \E k \in 1..Len(opcodes) :
        /\ opcodes[k][1] = "equal"
        /\ opcodes[k][2] <= p[1]
        /\ p[1] + n <= opcodes[k][3]
        /\ p[2] - p[1] = opcodes[k][4] - opcodes[k][2]

HasLoginSignal(text) ==
    \E signal \in {<<"l", "o", "g", " ", "i", "n">>,
                   <<"c", "o", "n", "t", "i", "n", "u", "e", " ", "w", "i", "t", "h">>,
                   <<"s", "i", "g", "n", " ", "u", "p">>,
                   <<"c", "r", "e", "a", "t", "e", " ", "a", "c", "c", "o", "u", "n", "t">>} :
        \E k \in 1..Len(text) :
            /\ k + Len(signal) - 1 <= Len(text)
            /\ lower(SubSeq(text, k, k + Len(signal) - 1)) = signal

\* the files are as the last completed run left them
FilesOfLastRun ==
    IF last_completed.any
    THEN /\ snapshot_file = [exists |-> TRUE, content |-> last_completed.text \o <<"\n">>]
         /\ hash_file = [exists |-> TRUE,
                         content |-> sha256_hex(last_completed.text) \o <<"\n">>]
         /\ diff_file = last_completed.diff
         /\ changes_file = last_completed.changes
    ELSE /\ ~snapshot_file.exists
         /\ ~hash_file.exists
         /\ ~diff_file.exists
         /\ ~changes_file.exists

(* C10: a run that fetches a login wall stops before the diff/report core  *)
(* and before any write: the four files stay as the last completed run     *)
(* left them and no output is emitted; the hash file always holds the hash *)
(* of the snapshot file of the last completed run, no login wall is ever   *)
(* persisted, and a run that goes on compares against that snapshot.       *)
C10_LoginWallLeavesState ==
    /\ pc \in {"start", "fetch", "compute", "write", "exited"} => FilesOfLastRun
    /\ pc = "done" => FilesOfLastRun
    /\ pc = "exited"
       => /\ outputs = <<>>
          /\ diff_lines = <<>> /\ opcodes = <<>> /\ items = <<>>
          /\ change_report = <<>> /\ change_brief = <<>>
    /\ pc \in {"compute", "write", "output", "done"} => ~HasLoginSignal(snapshot)
    /\ last_completed.any => ~HasLoginSignal(last_completed.text)
    /\ pc \in {"compute", "write"}
       => /\ old_snapshot = IF last_completed.any
                            THEN last_completed.text \o <<"\n">> ELSE <<>>
          /\ old_hash = IF last_completed.any
                        THEN sha256_hex(last_completed.text) ELSE <<>>

C10_Witness ==
    /\ pc = "exited"
    /\ last_completed.any
    /\ last_completed.text # <<>>
    /\ diff_file.exists /\ diff_file.content # <<>>

=============================================================================
